---- MODULE Spec2Model ----
(***************************************************************************)
(* Model of the paired-file model registry of                              *)
(* src/src/model_manager/model_manager.py (class ModelManager) and its     *)
(* helpers in src/src/model_manager/util.py.                               *)
(*                                                                         *)
(* File names are sequences of character codes, so that the directory      *)
(* listing is sorted the way Python sorts strings and get_model_name       *)
(* splits at the first '.'.  File contents are what the codecs write:      *)
(* a pickle stream for the model, JSON text for the model info.            *)
(* Python values and exceptions are tagged records.                        *)
(***************************************************************************)
EXTENDS Naturals, Sequences, FiniteSets, TLC

VARIABLES
    dir,      \* the model directory: file name -> file content
    last,     \* the last call made on the registry, its arguments and outcome
    saved,    \* per name, what the last save that returned normally stored
    pc,       \* per concurrent caller: position inside its save_model call
    req       \* per concurrent caller: the arguments of its save_model call

vars == <<dir, last, saved, pc, req>>

----------------------------------------------------------------------------
(* Characters and names *)

\* the separator of str.split('.') in get_model_name
Dot == 46

\* os.sep, at which os.path.basename cuts
Slash == 47

\* largest payload object handed to save_model
MaxPayload == 2

\* "a", "a-b", "a.b": '-' (45) sorts before '.' (46), which sorts before letters
Names == { <<97>>, <<97, 45, 98>>, <<97, 46, 98>> }

\* names without the extension separator
ValidNames == { n \in Names : \A i \in 1..Len(n) : n[i] # Dot }

\* config.DEFAULT_EXT_MODEL: ".model"
DEFAULT_EXT_MODEL == <<46, 109, 111, 100, 101, 108>>

\* config.DEFAULT_EXT_INFO: ".json"
DEFAULT_EXT_INFO == <<46, 106, 115, 111, 110>>

\* str < str in Python: lexicographic by code point
RECURSIVE StrLess(_, _)
StrLess(s, t) ==
    IF t = <<>> THEN FALSE
    ELSE IF s = <<>> THEN TRUE
    ELSE IF s[1] # t[1] THEN s[1] < t[1]
    ELSE StrLess(Tail(s), Tail(t))

\* list.sort() of os.listdir(model_dir)
RECURSIVE SortedListing(_)
SortedListing(S) ==
    IF S = {} THEN <<>>
    ELSE LET m == CHOOSE x \in S : \A y \in S : y = x \/ StrLess(x, y)
         IN <<m>> \o SortedListing(S \ {m})

\* os.path.basename: the part after the last separator
RECURSIVE basename(_)
basename(path) ==
    IF \E i \in 1..Len(path) : path[i] = Slash
    THEN basename(Tail(path))
    ELSE path

\* str.split('.')[0]: the part before the first '.'
RECURSIVE FirstField(_)
FirstField(s) ==
    IF s = <<>> \/ s[1] = Dot THEN <<>>
    ELSE <<s[1]>> \o FirstField(Tail(s))

get_model_name(filepath) == FirstField(basename(filepath))

_make_model_filepath(model_name) == model_name \o DEFAULT_EXT_MODEL

\* one info file for all models ("model_info.json"), whatever the name
aggregate_info_filepath(model_name) ==
    <<109, 111, 100, 101, 108, 95, 105, 110, 102, 111>> \o DEFAULT_EXT_INFO

_make_model_info_filepath(model_name) == model_name \o DEFAULT_EXT_INFO

----------------------------------------------------------------------------
(* Outcomes of a call: exc is "None" when it returned, val holds the value *)

Returned(v) == [exc |-> "None", val |-> <<v>>]

Raised(e) == [exc |-> e, val |-> <<>>]

----------------------------------------------------------------------------
(* util.iterate_by_n *)

\* the parameters the signature of iterate_by_n accepts
iterate_by_n_params == {"collection", "n", "yield_remainder", "error_if_remainder"}

\* the chunks collection[i:i+n] the while loop yields
RECURSIVE Chunks(_, _)
Chunks(collection, n) ==
    IF Len(collection) < n THEN <<>>
    ELSE <<SubSeq(collection, 1, n)>> \o
         Chunks(SubSeq(collection, n + 1, Len(collection)), n)

\* the generator: the chunks it yields, then how it ends
iterate_by_n(collection, n, yield_remainder, error_if_remainder) ==
    IF yield_remainder /\ error_if_remainder
    THEN [yields |-> <<>>, exc |-> "Exception"]
    ELSE LET full == Chunks(collection, n)
             rest == SubSeq(collection, Len(full) * n + 1, Len(collection))
         IN IF Len(collection) % n # 0
            THEN IF yield_remainder
                 THEN [yields |-> Append(full, rest), exc |-> "None"]
                 ELSE IF error_if_remainder
                      THEN [yields |-> full, exc |-> "Exception"]
                      ELSE [yields |-> full, exc |-> "None"]
            ELSE [yields |-> full, exc |-> "None"]

----------------------------------------------------------------------------
(* ModelManager.models, has_model, should_have_model *)

\* the TypeError of a call with an unexpected keyword argument
KeywordTypeError == "TypeError: unexpected keyword argument 'ignore_remainder'"

\* a call of iterate_by_n that passes only keywords the signature has
accepted_call_keywords == {"n"}

\* the keywords the call in models passes to iterate_by_n
models_call_keywords == {"n", "ignore_remainder"}

\* the for loop of models over the yielded pairs, up to the first mismatch
RECURSIVE models_loop(_, _, _)
models_loop(yields, end, acc) ==
    IF yields = <<>>
    THEN IF end = "None" THEN Returned(acc) ELSE Raised(end)
    ELSE LET model_file == yields[1][1]
             model_info_file == yields[1][2]
         IN IF get_model_name(model_file) # get_model_name(model_info_file)
            THEN Raised("ModelFilesCorrupted")
            ELSE models_loop(Tail(yields), end,
                             Append(acc, get_model_name(model_file)))

\* the models property: a call with a keyword the callee does not accept
\* raises TypeError before the generator is created
models(d) ==
    LET all_model_files == SortedListing(DOMAIN d)
    IN IF ~(models_call_keywords \subseteq iterate_by_n_params)
       THEN Raised(KeywordTypeError)
       ELSE LET it == iterate_by_n(all_model_files, 2, FALSE, FALSE)
            IN models_loop(it.yields, it.exc, <<>>)

has_model(d, model_name) ==
    LET ms == models(d)
    IN IF ms.exc # "None" THEN Raised(ms.exc)
       ELSE Returned(\E i \in 1..Len(ms.val[1]) : ms.val[1][i] = model_name)

should_have_model(d, model_name) ==
    LET h == has_model(d, model_name)
    IN IF h.exc # "None" THEN Raised(h.exc)
       ELSE IF ~h.val[1] THEN Raised("ShouldHaveModel")
       ELSE Returned(TRUE)

----------------------------------------------------------------------------
(* Python values: records of one shape, so that any two can be compared.   *)
(* t is the type, n an int's value, s a str's characters, v the items of   *)
(* a tuple or list or the values of a dict, k the keys of a dict.          *)

PyValue(t, n, s, v, k) == [t |-> t, n |-> n, s |-> s, v |-> v, k |-> k]

PyNone == PyValue("None", 0, <<>>, <<>>, <<>>)

PyInt(i) == PyValue("int", i, <<>>, <<>>, <<>>)

PyStr(s) == PyValue("str", 0, s, <<>>, <<>>)

PyTuple(xs) == PyValue("tuple", 0, <<>>, xs, <<>>)

PyList(xs) == PyValue("list", 0, <<>>, xs, <<>>)

\* a dict with keys ks[i] and values xs[i], in insertion order
PyDict(ks, xs) == PyValue("dict", 0, <<>>, xs, ks)

\* an open file handle, which json cannot encode
PyFile == PyValue("TextIOWrapper", 0, <<>>, <<>>, <<>>)

\* the key "k"
KeyK == PyStr(<<107>>)

\* the model_info arguments handed to save_model: {"k": 1}, {"k": (1,)}
\* and {"k": <open file>}
MetaInputs ==
    { PyDict(<<KeyK>>, <<PyInt(1)>>),
      PyDict(<<KeyK>>, <<PyTuple(<<PyInt(1)>>)>>),
      PyDict(<<KeyK>>, <<PyFile>>) }

\* the model objects handed to save_model
Payloads == 1..MaxPayload

----------------------------------------------------------------------------
(* The codecs: json.dump / json.load and cloudpickle.dump / pickle.load *)

\* a JSON document: j is the kind, n a number, s a string's characters,
\* v the elements of an array or the member values of an object, k the
\* member names of an object
JsonDoc(j, n, s, v, k) == [j |-> j, n |-> n, s |-> s, v |-> v, k |-> k]

JsonNull == JsonDoc("null", 0, <<>>, <<>>, <<>>)

\* str(i) for a one-digit int, as json writes an int key
IntToStr(i) == <<48 + i>>

\* json encoding of a value: ok is FALSE where json raises TypeError.
\* Tuples and lists both become arrays, int keys become strings.
RECURSIVE json_encode(_)
json_encode(x) ==
    CASE x.t = "None" -> [ok |-> TRUE, doc |-> JsonNull]
      [] x.t = "int" ->
            [ok |-> TRUE, doc |-> JsonDoc("number", x.n, <<>>, <<>>, <<>>)]
      [] x.t = "str" ->
            [ok |-> TRUE, doc |-> JsonDoc("string", 0, x.s, <<>>, <<>>)]
      [] x.t \in {"tuple", "list"} ->
            LET es == [i \in 1..Len(x.v) |-> json_encode(x.v[i])]
            IN [ok |-> \A i \in 1..Len(es) : es[i].ok,
                doc |-> JsonDoc("array", 0, <<>>,
                                [i \in 1..Len(es) |-> es[i].doc], <<>>)]
      [] x.t = "dict" ->
            LET keyok == [i \in 1..Len(x.k) |-> x.k[i].t \in {"str", "int"}]
                names == [i \in 1..Len(x.k) |->
                            IF x.k[i].t = "int" THEN IntToStr(x.k[i].n)
                            ELSE x.k[i].s]
                es == [i \in 1..Len(x.v) |-> json_encode(x.v[i])]
            IN [ok |-> \A i \in 1..Len(es) : keyok[i] /\ es[i].ok,
                doc |-> JsonDoc("object", 0, <<>>,
                                [i \in 1..Len(es) |-> es[i].doc], names)]
      [] OTHER -> [ok |-> FALSE, doc |-> JsonNull]

\* json decoding of a document: arrays become lists, objects dicts with str keys
RECURSIVE json_decode(_)
json_decode(doc) ==
    CASE doc.j = "null" -> PyNone
      [] doc.j = "number" -> PyInt(doc.n)
      [] doc.j = "string" -> PyStr(doc.s)
      [] doc.j = "array" -> PyList([i \in 1..Len(doc.v) |-> json_decode(doc.v[i])])
      [] doc.j = "object" ->
            PyDict([i \in 1..Len(doc.k) |-> PyStr(doc.k[i])],
                   [i \in 1..Len(doc.v) |-> json_decode(doc.v[i])])

\* the first byte of a pickle stream (the PROTO opcode)
PickleProto == 128

\* cloudpickle.dump(model, f): the bytes written
pickle_dump(model) == <<PickleProto, model>>

\* pickle.load(f)
pickle_load(bytes) ==
    IF bytes = <<>> THEN Raised("EOFError")
    ELSE IF Len(bytes) = 2 /\ bytes[1] = PickleProto THEN Returned(bytes[2])
    ELSE Raised("UnpicklingError")

----------------------------------------------------------------------------
(* Files: bytes holds what a binary writer wrote, text the JSON document a *)
(* text writer wrote, cut tells that the writer raised part-way            *)

\* a file just created or truncated by open(..., 'w' / 'x')
EmptyFile == [bytes |-> <<>>, text |-> <<>>, cut |-> FALSE]

\* the model file after cloudpickle.dump
PickleFile(model) == [bytes |-> pickle_dump(model), text |-> <<>>, cut |-> FALSE]

\* the info file after json.dump has written the whole document
JsonFile(doc) == [bytes |-> <<>>, text |-> <<doc>>, cut |-> FALSE]

\* a JSON file whose writer raised part-way: a prefix of the text, not a document
CutFile == [bytes |-> <<>>, text |-> <<>>, cut |-> TRUE]

\* the directory with file f holding content c
Put(d, f, c) == [x \in DOMAIN d \cup {f} |-> IF x = f THEN c ELSE d[x]]

\* the directory without file f
Remove(d, f) == [x \in DOMAIN d \ {f} |-> d[x]]

\* lines 52-55 of open_file: the mode chosen from os.path.exists
open_mode(d, filepath, binary) ==
    LET file_exists == filepath \in DOMAIN d
    IN <<IF file_exists THEN "w" ELSE "x", binary>>

\* the builtin open(filepath, mode) for writing: 'w' truncates, 'x' creates
\* and fails if the file exists
open(d, filepath, mode) ==
    IF mode[1] = "x" /\ filepath \in DOMAIN d
    THEN [exc |-> "FileExistsError", dir |-> d]
    ELSE [exc |-> "None", dir |-> Put(d, filepath, EmptyFile)]

open_file(d, filepath, binary) == open(d, filepath, open_mode(d, filepath, binary))

----------------------------------------------------------------------------
(* ModelManager.save_model, load_model, get_model_info *)

\* the TypeError json.dump raises for a value it cannot encode
JsonTypeError == "TypeError: Object is not JSON serializable"

\* line 111: `not overwrite_model and self.has_model(model_name)`;
\* has_model is not called when overwrite_model is set
save_guard(d, model_name, overwrite_model) ==
    IF overwrite_model THEN Returned(FALSE) ELSE has_model(d, model_name)

\* lines 121-122: an omitted model_info is saved as {}
info_or_empty(model_info) ==
    IF model_info = PyNone THEN PyDict(<<>>, <<>>) ELSE model_info

\* lines 118-119: the model file after open_file and cloudpickle.dump
write_model_file(d, model_name, model) ==
    LET model_file == _make_model_filepath(model_name)
        o == open_file(d, model_file, TRUE)
    IN IF o.exc # "None" THEN o
       ELSE [exc |-> "None",
             dir |-> Put(o.dir, model_file, PickleFile(model))]

\* lines 123-125: the model info file after open_file and json.dump, which
\* raises part-way through the text for a value it cannot encode
write_info_file(d, model_name, model_info) ==
    LET model_info_file == _make_model_info_filepath(model_name)
        o == open_file(d, model_info_file, FALSE)
        enc == json_encode(model_info)
    IN IF o.exc # "None" THEN o
       ELSE IF enc.ok
            THEN [exc |-> "None",
                  dir |-> Put(o.dir, model_info_file, JsonFile(enc.doc))]
            ELSE [exc |-> JsonTypeError,
                  dir |-> Put(o.dir, model_info_file, CutFile)]

\* save_model: the exception raised ("None" if it returned) and the
\* directory it leaves
save_model(d, model_name, model, model_info, overwrite_model) ==
    LET g == save_guard(d, model_name, overwrite_model)
    IN IF g.exc # "None" THEN [exc |-> g.exc, dir |-> d]
       ELSE IF g.val[1] THEN [exc |-> "NoOverwrite", dir |-> d]
       ELSE LET w1 == write_model_file(d, model_name, model)
            IN IF w1.exc # "None" THEN w1
               ELSE write_info_file(w1.dir, model_name, info_or_empty(model_info))

\* load_model: opens the model file and unpickles it
load_model(d, model_name) ==
    LET model_file == _make_model_filepath(model_name)
    IN IF model_file \notin DOMAIN d THEN Raised("FileNotFoundError")
       ELSE pickle_load(d[model_file].bytes)

\* get_model_info: should_have_model, then json.load of the info file
get_model_info(d, model_name) ==
    LET model_info_file == _make_model_info_filepath(model_name)
        s == should_have_model(d, model_name)
    IN IF s.exc # "None" THEN Raised(s.exc)
       ELSE IF model_info_file \notin DOMAIN d THEN Raised("FileNotFoundError")
       ELSE IF d[model_info_file].cut \/ d[model_info_file].text = <<>>
            THEN Raised("JSONDecodeError")
            ELSE Returned(json_decode(d[model_info_file].text[1]))

----------------------------------------------------------------------------
(* The registry used by one caller at a time *)

Callers == {1, 2}

\* the record of a call: what was called for which name, and how it ended
Call(op, name, ow, out) == [op |-> op, name |-> name, ow |-> ow, out |-> out]

NoCall == Call("none", <<>>, FALSE, Returned(TRUE))

\* the locals of a save_model call in progress: its arguments, the mode
\* open_file chose, the exception it ended with, and whether its info file
\* was written while the other caller had its own info file open
Request(name, model, info, ow) ==
    [name |-> name, model |-> model, info |-> info, ow |-> ow,
     mode |-> <<"", FALSE>>, exc |-> "None", ovl |-> FALSE]

NoRequest == Request(<<>>, 0, PyNone, FALSE)

\* __init__ on a directory that does not exist yet: os.mkdir leaves it empty
Init ==
    /\ dir = <<>>
    /\ last = NoCall
    /\ saved = [n \in Names |-> <<>>]
    /\ pc = [c \in Callers |-> "idle"]
    /\ req = [c \in Callers |-> NoRequest]

\* a load that opens the model file for writing: the open empties the file
\* and nothing can be read back from it
LoadOpenedForWriting(n) ==
    /\ dir' = Put(dir, _make_model_filepath(n), EmptyFile)
    /\ last' = Call("load", n, FALSE, Raised("UnsupportedOperation"))
    /\ UNCHANGED <<saved, pc, req>>

Save(n, p, m, ow) ==
    LET r == save_model(dir, n, p, m, ow)
    IN /\ dir' = r.dir
       /\ last' = Call("save", n, ow, [exc |-> r.exc, val |-> <<>>])
       /\ saved' = [saved EXCEPT ![n] =
                      IF r.exc = "None" THEN <<p, info_or_empty(m)>>
                      ELSE IF r.dir = dir THEN @ ELSE <<>>]
       /\ UNCHANGED <<pc, req>>

Load(n) ==
    /\ last' = Call("load", n, FALSE, load_model(dir, n))
    /\ UNCHANGED <<dir, saved, pc, req>>

GetInfo(n) ==
    /\ last' = Call("info", n, FALSE, get_model_info(dir, n))
    /\ UNCHANGED <<dir, saved, pc, req>>

Has(n) ==
    /\ last' = Call("has", n, FALSE, has_model(dir, n))
    /\ UNCHANGED <<dir, saved, pc, req>>

List ==
    /\ last' = Call("list", <<>>, FALSE, models(dir))
    /\ UNCHANGED <<dir, saved, pc, req>>

\* someone outside the registry removes only the info file of a stored model
RemoveInfoFile(n) ==
    /\ _make_model_info_filepath(n) \in DOMAIN dir
    /\ _make_model_filepath(n) \in DOMAIN dir
    /\ dir' = Remove(dir, _make_model_info_filepath(n))
    /\ last' = Call("rm_info", n, FALSE, Returned(TRUE))
    /\ saved' = [saved EXCEPT ![n] = <<>>]
    /\ UNCHANGED <<pc, req>>

\* the methods and attributes class ModelManager defines
ModelManager_attributes ==
    {"model_dir", "models", "has_model", "should_have_model", "save_model",
     "load_model", "get_model_info", "_make_model_filepath",
     "_make_model_info_filepath"}

\* a call of manager.delete(model_name): the class defines no such method,
\* so the attribute lookup raises and the directory is not touched
delete(d, model_name) ==
    IF "delete" \notin ModelManager_attributes
    THEN [exc |-> "AttributeError", dir |-> d]
    ELSE [exc |-> "None", dir |-> d]

Delete(n) ==
    LET r == delete(dir, n)
    IN /\ dir' = r.dir
       /\ last' = Call("delete", n, FALSE, [exc |-> r.exc, val |-> <<>>])
       /\ UNCHANGED <<saved, pc, req>>

Next ==
    \/ \E n \in Names, p \in Payloads, m \in MetaInputs, ow \in BOOLEAN :
          Save(n, p, m, ow)
    \/ \E n \in Names : Load(n)
    \/ \E n \in Names : GetInfo(n)
    \/ \E n \in Names : Has(n)
    \/ List
    \/ \E n \in Names : Delete(n)
    \/ \E n \in Names : RemoveInfoFile(n)

Spec == Init /\ [][Next]_vars

----------------------------------------------------------------------------
(* Properties of the registry used by one caller at a time *)

\* both files of model_name are in the directory
BothFiles(d, model_name) ==
    /\ _make_model_filepath(model_name) \in DOMAIN d
    /\ _make_model_info_filepath(model_name) \in DOMAIN d

\* neither file of model_name is in the directory
NoFiles(d, model_name) ==
    /\ _make_model_filepath(model_name) \notin DOMAIN d
    /\ _make_model_info_filepath(model_name) \notin DOMAIN d

\* json can encode the model info
Serializable(m) == json_encode(m).ok

\* the list is in ascending order
Ascending(xs) ==
    \A i \in 1..Len(xs) : \A j \in 1..Len(xs) :
        i < j => (xs[i] = xs[j] \/ StrLess(xs[i], xs[j]))

\* C1: has(n) is false for every name on the empty directory before any
\* save, and true for n right after save(n, ...) has returned normally.
C1_HasFalseThenTrue ==
    /\ (dir = <<>> /\ last.op = "none") =>
           \A n \in Names : has_model(dir, n) = Returned(FALSE)
    /\ (last.op = "save" /\ last.out.exc = "None") =>
           has_model(dir, last.name) = Returned(TRUE)

\* C2: once n is stored, save(n, ..., overwrite=False) raises NoOverwrite,
\* and save(n, p2, m2, overwrite=True) returns and leaves the two files of n
\* holding the new model and the new info.
C2_NoOverwriteThenReplace ==
    [][\A n \in Names, p \in Payloads, m \in MetaInputs :
          /\ (BothFiles(dir, n) /\ Save(n, p, m, FALSE)) =>
                 last'.out.exc = "NoOverwrite"
          /\ (BothFiles(dir, n) /\ Serializable(m) /\ Save(n, p, m, TRUE)) =>
                 /\ last'.out.exc = "None"
                 /\ dir'[_make_model_filepath(n)] = PickleFile(p)
                 /\ dir'[_make_model_info_filepath(n)] =
                        JsonFile(json_encode(m).doc)]_vars

\* C3: for a valid name n not yet stored, save(n, p, m, overwrite=False)
\* with encodable m returns, and loading n then gives back p and m.
C3_RoundTrip ==
    [][\A n \in ValidNames, p \in Payloads, m \in MetaInputs :
          (NoFiles(dir, n) /\ Serializable(m) /\ Save(n, p, m, FALSE)) =>
              /\ last'.out.exc = "None"
              /\ load_model(dir', n) = Returned(p)
              /\ get_model_info(dir', n) = Returned(m)]_vars

\* C4: right after only the info file of a stored model has been removed,
\* list() and has() raise ModelFilesCorrupted, whatever else is stored.
C4_RemovedInfoIsCorruption ==
    last.op = "rm_info" =>
        /\ models(dir).exc = "ModelFilesCorrupted"
        /\ \A n \in Names : has_model(dir, n).exc = "ModelFilesCorrupted"

\* C5: a save whose model info json cannot encode raises the
\* not-serializable error and leaves the directory as it was.
C5_UnserializableTouchesNothing ==
    [][\A n \in Names, p \in Payloads, m \in MetaInputs :
          (~Serializable(m) /\ Save(n, p, m, TRUE)) =>
              /\ last'.out.exc = JsonTypeError
              /\ dir' = dir]_vars

\* C6: load(name) raises a not-found error (ShouldHaveModel, or the
\* FileNotFoundError of open) for every name has(name) does not report as
\* present; it returns a model only for a name has(name) reports.
C6_LoadOnlyWhatHasReports ==
    (last.op = "load" /\ has_model(dir, last.name) # Returned(TRUE)) =>
        last.out.exc \in {"ShouldHaveModel", "FileNotFoundError"}

\* C7: every name list() returns has both its files in the directory, and
\* has(n) is true for every valid name n whose save returned normally.
C7_ListedIffPaired ==
    /\ LET ms == models(dir)
       IN ms.exc = "None" =>
              \A i \in 1..Len(ms.val[1]) : BothFiles(dir, ms.val[1][i])
    /\ \A n \in ValidNames :
           saved[n] # <<>> => has_model(dir, n) = Returned(TRUE)

\* C8: list() returns the stored names in ascending order.
C8_ListAscending ==
    last.op = "list" =>
        /\ last.out.exc = "None"
        /\ Ascending(last.out.val[1])

\* C9: save of a name containing '.' fails and creates no file.
C9_DotNameRejected ==
    (last.op = "save" /\ last.name \notin ValidNames) =>
        /\ last.out.exc # "None"
        /\ NoFiles(dir, last.name)

\* C11: delete(name) on a present artifact returns and removes both of its
\* files; delete(name) raises a not-found error if either file is absent;
\* and no call on the registry removes one file of a pair without the other.
C11_DeleteRemovesBoth ==
    [][\A n \in Names :
          /\ (BothFiles(dir, n) /\ Delete(n)) =>
                 (last'.out.exc = "None" /\ NoFiles(dir', n))
          /\ (~BothFiles(dir, n) /\ Delete(n)) =>
                 last'.out.exc \in {"ShouldHaveModel", "FileNotFoundError"}
          /\ (BothFiles(dir, n) /\ last'.op # "rm_info") =>
                 (BothFiles(dir', n) \/ NoFiles(dir', n))]_vars

\* C12: a save that has written the model file and then fails writing the
\* info leaves the model file without an info file, and list() then raises
\* ModelFilesCorrupted.
C12_FailedInfoWriteLeavesOrphan ==
    (last.op = "save" /\ last.out.exc = JsonTypeError) =>
        /\ _make_model_filepath(last.name) \in DOMAIN dir
        /\ _make_model_info_filepath(last.name) \notin DOMAIN dir
        /\ models(dir).exc = "ModelFilesCorrupted"

\* C13: list() raises ModelFilesCorrupted whenever the directory holds an
\* odd number of entries.
C13_OddCountIsCorruption ==
    (last.op = "list" /\ Cardinality(DOMAIN dir) % 2 = 1) =>
        last.out.exc = "ModelFilesCorrupted"

\* the calls that only read
ReadOps == {"load", "info", "has", "list"}

\* C15: load, get_model_info, has and list leave the directory entries and
\* every file's content as they were, whether they return or raise.
C15_ReadsChangeNothing == [][last'.op \in ReadOps => dir' = dir]_vars

\* a read returned a stored model, and the directory still holds its files
C15_Witness ==
    /\ last.op = "load"
    /\ last.out.exc = "None"
    /\ BothFiles(dir, last.name)

SameFiles(d, e, model_name) ==
    /\ BothFiles(d, model_name) /\ BothFiles(e, model_name)
    /\ d[_make_model_filepath(model_name)] = e[_make_model_filepath(model_name)]
    /\ d[_make_model_info_filepath(model_name)] =
           e[_make_model_info_filepath(model_name)]

\* C17: a save of m leaves every other stored name n as it was: its two
\* files are unchanged, has(n) is true, and loading n gives the model and
\* the info last saved under n.
C17_SaveTouchesOnlyItsOwn ==
    [][\A n \in Names :
          (last'.op = "save" /\ last'.name # n /\ saved[n] # <<>>) =>
              /\ SameFiles(dir, dir', n)
              /\ has_model(dir', n) = Returned(TRUE)
              /\ load_model(dir', n) = Returned(saved[n][1])
              /\ get_model_info(dir', n) = Returned(saved[n][2])]_vars

----------------------------------------------------------------------------
(* Two callers inside save_model at once: each file-system call of          *)
(* save_model and open_file is one step, and nothing is locked in between  *)

Other(c) == CHOOSE o \in Callers : o # c

\* caller c moves to position p with its locals changed to r
Goto(c, p, r) ==
    /\ pc' = [pc EXCEPT ![c] = p]
    /\ req' = [req EXCEPT ![c] = r]

\* caller c leaves save_model with exception e ("None": it returned)
Finish(c, e) == Goto(c, "done", [req[c] EXCEPT !.exc = e])

\* the call is made; each caller saves its own model object
Begin(c, n, m, ow) ==
    /\ pc[c] = "idle"
    /\ Goto(c, "guard", Request(n, c, m, ow))
    /\ UNCHANGED <<dir, last, saved>>

\* line 111
Guard(c) ==
    /\ pc[c] = "guard"
    /\ LET g == save_guard(dir, req[c].name, req[c].ow)
       IN IF g.exc # "None" THEN Finish(c, g.exc)
          ELSE IF g.val[1] THEN Finish(c, "NoOverwrite")
          ELSE Goto(c, "model_exists", req[c])
    /\ UNCHANGED <<dir, last, saved>>

\* line 118, open_file lines 52-55: os.path.exists on the model file
ModelExists(c) ==
    /\ pc[c] = "model_exists"
    /\ Goto(c, "model_open",
            [req[c] EXCEPT !.mode =
                open_mode(dir, _make_model_filepath(req[c].name), TRUE)])
    /\ UNCHANGED <<dir, last, saved>>

\* line 118, open_file line 56: open in the mode chosen
ModelOpen(c) ==
    /\ pc[c] = "model_open"
    /\ LET o == open(dir, _make_model_filepath(req[c].name), req[c].mode)
       IN /\ dir' = o.dir
          /\ IF o.exc # "None" THEN Finish(c, o.exc)
             ELSE Goto(c, "model_dump", req[c])
    /\ UNCHANGED <<last, saved>>

\* line 119: cloudpickle.dump and the close of the file
ModelDump(c) ==
    /\ pc[c] = "model_dump"
    /\ dir' = Put(dir, _make_model_filepath(req[c].name),
                  PickleFile(req[c].model))
    /\ Goto(c, "info_exists", req[c])
    /\ UNCHANGED <<last, saved>>

\* line 124, open_file lines 52-55: os.path.exists on the info file
InfoExists(c) ==
    /\ pc[c] = "info_exists"
    /\ Goto(c, "info_open",
            [req[c] EXCEPT !.mode =
                open_mode(dir, _make_model_info_filepath(req[c].name), FALSE)])
    /\ UNCHANGED <<dir, last, saved>>

\* line 124, open_file line 56
InfoOpen(c) ==
    /\ pc[c] = "info_open"
    /\ LET o == open(dir, _make_model_info_filepath(req[c].name), req[c].mode)
       IN /\ dir' = o.dir
          /\ IF o.exc # "None" THEN Finish(c, o.exc)
             ELSE Goto(c, "info_dump", req[c])
    /\ UNCHANGED <<last, saved>>

\* line 125: json.dump and the close of the file
InfoDump(c) ==
    /\ pc[c] = "info_dump"
    /\ LET enc == json_encode(info_or_empty(req[c].info))
           f == _make_model_info_filepath(req[c].name)
           r == [req[c] EXCEPT !.ovl = (pc[Other(c)] = "info_dump")]
       IN IF enc.ok
          THEN /\ dir' = Put(dir, f, JsonFile(enc.doc))
               /\ Goto(c, "done", r)
          ELSE /\ dir' = Put(dir, f, CutFile)
               /\ Goto(c, "done", [r EXCEPT !.exc = JsonTypeError])
    /\ UNCHANGED <<last, saved>>

NextConc ==
    \/ \E c \in Callers, n \in Names, m \in MetaInputs, ow \in BOOLEAN :
          Begin(c, n, m, ow)
    \/ \E c \in Callers : Guard(c)
    \/ \E c \in Callers : ModelExists(c)
    \/ \E c \in Callers : ModelOpen(c)
    \/ \E c \in Callers : ModelDump(c)
    \/ \E c \in Callers : InfoExists(c)
    \/ \E c \in Callers : InfoOpen(c)
    \/ \E c \in Callers : InfoDump(c)

SpecConc == Init /\ [][NextConc]_vars

\* both callers have returned normally from saves of different names
BothReturned ==
    /\ \A c \in Callers : pc[c] = "done" /\ req[c].exc = "None"
    /\ req[1].name # req[2].name

\* the two files of caller c's name hold what c saved
HoldsOwn(c) ==
    /\ BothFiles(dir, req[c].name)
    /\ dir[_make_model_filepath(req[c].name)] = PickleFile(req[c].model)
    /\ dir[_make_model_info_filepath(req[c].name)] =
           JsonFile(json_encode(info_or_empty(req[c].info)).doc)

\* C10 (as amended): when two concurrent saves of different names have both
\* returned normally, each name's model file and info file hold what its
\* own caller saved: no writer's update is lost.
C10_NoLostUpdate == BothReturned => \A c \in Callers : HoldsOwn(c)

\* two saves of different names wrote their info files interleaved (one
\* wrote while the other had its info file open) and both returned
C10_Witness == BothReturned /\ \E c \in Callers : req[c].ovl

\* C10 (as claimed): when two concurrent saves of different names have
\* interleaved their info writes and both returned, the info of one of the
\* two is lost.
C10_LostUpdate ==
    (BothReturned /\ \E c \in Callers : req[c].ovl) =>
        \E c \in Callers : ~HoldsOwn(c)

\* a file that holds a complete pickle or a complete JSON document
Whole(content) == content \notin {EmptyFile, CutFile}

\* C14: file writes are atomic: a file that holds complete content holds
\* complete content (the previous or the new) after every step of every save,
\* also of a save that fails part-way; it is never seen empty or cut short.
C14_WholeStaysWhole ==
    [][\A f \in DOMAIN dir :
          Whole(dir[f]) => (f \in DOMAIN dir' /\ Whole(dir'[f]))]_vars

\* both callers ran save_model without overwrite for the same name, which
\* no file existed for when they began, and both calls are over
SameNameNoOverwrite ==
    /\ \A c \in Callers : pc[c] = "done" /\ ~req[c].ow
    /\ req[1].name = req[2].name

====
